---------------------------- MODULE Spec2Model ----------------------------
(***************************************************************************)
(* Model of the story generator: src/server.py (the API server with the    *)
(* generate_from_epic, find_wiki_pages and generate_stories handlers and   *)
(* the parse_stories parser) and src/mcp_server.py (the tool server with   *)
(* the fetch_wiki and create_story handlers).                              *)
(*                                                                         *)
(* Python strings are modelled as sequences of one-character strings, so   *)
(* that split, strip, replace, lower, startswith and the substring test    *)
(* are computed the way the code computes them.                            *)
(***************************************************************************)
EXTENDS Integers, Sequences, FiniteSets, TLC

-----------------------------------------------------------------------------
(* Python str operations *)

\* the characters str.strip() and str.split() treat as whitespace
Whitespace == {" ", "\n", "\t", "\r"}

UpperChars == <<"A","B","C","D","E","F","G","H","I","J","K","L","M",
                "N","O","P","Q","R","S","T","U","V","W","X","Y","Z">>
LowerChars == <<"a","b","c","d","e","f","g","h","i","j","k","l","m",
                "n","o","p","q","r","s","t","u","v","w","x","y","z">>

LowerChar(c) ==
  IF \E i \in DOMAIN UpperChars : UpperChars[i] = c
  THEN LowerChars[CHOOSE i \in DOMAIN UpperChars : UpperChars[i] = c]
  ELSE c

\* str.lower()
Lower(s) == [i \in 1..Len(s) |-> LowerChar(s[i])]

\* s[a:b] with 1-based inclusive bounds, empty when out of range
Slice(s, a, b) == IF a > b THEN <<>> ELSE SubSeq(s, a, b)

\* str.startswith(p)
StartsWith(s, p) == Len(s) >= Len(p) /\ Slice(s, 1, Len(p)) = p

\* str.find(p): the first index at which p occurs in s, 0 when it does not
Find(s, p) ==
  LET hits == {i \in 1..(Len(s) - Len(p) + 1) : Slice(s, i, i + Len(p) - 1) = p}
  IN IF hits = {} THEN 0 ELSE CHOOSE i \in hits : \A j \in hits : i <= j

\* p in s
Contains(s, p) == p = <<>> \/ Find(s, p) # 0

\* s.split(sep) for a non-empty separator
RECURSIVE Split(_, _)
Split(s, sep) ==
  LET i == Find(s, sep)
  IN IF i = 0 THEN <<s>>
     ELSE <<Slice(s, 1, i - 1)>> \o Split(Slice(s, i + Len(sep), Len(s)), sep)

\* sep.join(parts)
RECURSIVE Join(_, _)
Join(parts, sep) ==
  IF parts = <<>> THEN <<>>
  ELSE IF Len(parts) = 1 THEN parts[1]
  ELSE parts[1] \o sep \o Join(Tail(parts), sep)

\* s.replace(old, new): every non-overlapping occurrence, left to right
Replace(s, old, new) == Join(Split(s, old), new)

\* s.lstrip(chars) / s.rstrip(chars) / s.strip(chars) for a character set
LStripChars(s, chars) ==
  LET keep == {i \in 1..Len(s) : s[i] \notin chars}
  IN IF keep = {} THEN <<>>
     ELSE Slice(s, CHOOSE i \in keep : \A j \in keep : i <= j, Len(s))

RStripChars(s, chars) ==
  LET keep == {i \in 1..Len(s) : s[i] \notin chars}
  IN IF keep = {} THEN <<>>
     ELSE Slice(s, 1, CHOOSE i \in keep : \A j \in keep : i >= j)

StripChars(s, chars) == RStripChars(LStripChars(s, chars), chars)

\* s.strip()
Strip(s) == StripChars(s, Whitespace)

\* s.split(): the maximal runs of non-whitespace characters
RECURSIVE SplitWS(_)
SplitWS(s) ==
  LET t == LStripChars(s, Whitespace)
      ws == {i \in 1..Len(t) : t[i] \in Whitespace}
      e == IF ws = {} THEN Len(t) + 1 ELSE CHOOSE i \in ws : \A j \in ws : i <= j
  IN IF t = <<>> THEN <<>>
     ELSE <<Slice(t, 1, e - 1)>> \o SplitWS(Slice(t, e, Len(t)))

\* concatenation of a sequence of strings
Concat(parts) == Join(parts, <<>>)

-----------------------------------------------------------------------------
(* parse_stories: the delimiters and markers of the generated text *)

NL == <<"\n">>
STORY_DELIM == <<"-","-","-","S","T","O","R","Y","-","-","-">>
END_DELIM == <<"-","-","-","E","N","D","-","-","-">>
TITLE_MARK == <<"T","I","T","L","E",":">>
DESC_MARK == <<"D","E","S","C","R","I","P","T","I","O","N",":">>

\* the loop over the lines of one block: st is (title, description_lines,
\* in_description) after the lines before k
RECURSIVE ScanLines(_, _, _)
ScanLines(lines, k, st) ==
  IF k > Len(lines) THEN st
  ELSE LET line == Strip(lines[k])
       IN ScanLines(lines, k + 1,
            IF StartsWith(line, TITLE_MARK)
            THEN [st EXCEPT !.title = Strip(Replace(line, TITLE_MARK, <<>>))]
            ELSE IF StartsWith(line, DESC_MARK)
            THEN [st EXCEPT !.in_description = TRUE]
            ELSE IF st.in_description /\ line # <<>>
            THEN [st EXCEPT !.description_lines = Append(@, line)]
            ELSE st)

\* ParseBlock without the test for the end delimiter
ParseBlockNoEndCheck(block) ==
  LET content == Strip(Split(block, END_DELIM)[1])
      st == ScanLines(Split(content, NL), 1,
              [title |-> <<>>, description_lines |-> <<>>,
               in_description |-> FALSE])
  IN IF st.title # <<>> /\ st.description_lines # <<>>
     THEN <<[title |-> st.title,
             description |-> Join(st.description_lines, NL)]>>
     ELSE <<>>

\* ParseBlock without the test for captured description lines
ParseBlockNoDescCheck(block) ==
  IF ~Contains(block, END_DELIM) THEN <<>>
  ELSE LET content == Strip(Split(block, END_DELIM)[1])
           st == ScanLines(Split(content, NL), 1,
                   [title |-> <<>>, description_lines |-> <<>>,
                    in_description |-> FALSE])
       IN IF st.title # <<>>
          THEN <<[title |-> st.title,
                  description |-> Join(st.description_lines, NL)]>>
          ELSE <<>>

\* the body of the loop over the blocks: the records one block contributes
ParseBlock(block) ==
  IF ~Contains(block, END_DELIM) THEN <<>>
  ELSE LET content == Strip(Split(block, END_DELIM)[1])
           st == ScanLines(Split(content, NL), 1,
                   [title |-> <<>>, description_lines |-> <<>>,
                    in_description |-> FALSE])
       IN IF st.title # <<>> /\ st.description_lines # <<>>
          THEN <<[title |-> st.title,
                  description |-> Join(st.description_lines, NL)]>>
          ELSE <<>>

RECURSIVE ParseBlocks(_)
ParseBlocks(blocks) ==
  IF blocks = <<>> THEN <<>>
  ELSE ParseBlock(Head(blocks)) \o ParseBlocks(Tail(blocks))

parse_stories(llm_output) == ParseBlocks(Split(llm_output, STORY_DELIM))

-----------------------------------------------------------------------------
(* The keyword-overlap scorer of generate_from_epic and find_wiki_pages.   *)
(* A confidence is the exact quotient num/den of the float the code holds. *)

\* a threshold of one half
FallbackThresholdHalf == [num |-> 1, den |-> 2]

\* the "score >= 0.3" test of the fallback, as a quotient
FALLBACK_THRESHOLD == [num |-> 3, den |-> 10]

\* a >= b for two quotients with positive denominators
ConfGE(a, b) == a.num * b.den >= b.num * a.den

\* the keywords in the letter case of the title
EpicKeywordsCaseSensitive(epic_title) == SplitWS(epic_title)

\* epic_keywords = epic_title.lower().split()
epic_keywords(epic_title) == SplitWS(Lower(epic_title))

\* sum(1 for word in epic_keywords if word in page_lower) / len(epic_keywords)
KeywordScore(keywords, page) ==
  [num |-> Cardinality({i \in 1..Len(keywords) : Contains(Lower(page), keywords[i])}),
   den |-> Len(keywords)]

\* the loop "for page in all_pages": the entries appended, in candidate order;
\* with_reason tells the two copies of the loop apart
RECURSIVE KeywordLoop(_, _, _)
KeywordLoop(keywords, pages, with_reason) ==
  IF pages = <<>> THEN <<>>
  ELSE LET page == Head(pages)
           score == KeywordScore(keywords, page)
           rest == KeywordLoop(keywords, Tail(pages), with_reason)
       IN IF ConfGE(score, FALLBACK_THRESHOLD)
          THEN <<IF with_reason
                 THEN [path |-> page, confidence |-> score, reason |-> "Keyword match"]
                 ELSE [path |-> page, confidence |-> score]>> \o rest
          ELSE rest

\* The division raises ZeroDivisionError when the phrase has no keyword and
\* there is a page to score.
KeywordRaises(epic_title, all_pages) ==
  all_pages # <<>> /\ epic_keywords(epic_title) = <<>>

\* the keyword matching of generate_from_epic (both copies): no sort
KeywordMatchEpic(epic_title, all_pages) ==
  KeywordLoop(epic_keywords(epic_title), all_pages, FALSE)

\* sorted(matched, key=confidence, reverse=True): stable, so equal keys keep
\* their order; insertion after every element that is >= the inserted one
RECURSIVE InsertDesc(_, _)
InsertDesc(sorted, m) ==
  IF sorted = <<>> THEN <<m>>
  ELSE IF ConfGE(Head(sorted).confidence, m.confidence)
       THEN <<Head(sorted)>> \o InsertDesc(Tail(sorted), m)
       ELSE <<m>> \o sorted

RECURSIVE SortedDesc(_)
SortedDesc(matched) ==
  IF matched = <<>> THEN <<>>
  ELSE InsertDesc(SortedDesc(SubSeq(matched, 1, Len(matched) - 1)),
                  matched[Len(matched)])

\* the keyword matching of find_wiki_pages: the loop, then the sort
KeywordMatchFind(epic_title, all_pages) ==
  SortedDesc(KeywordLoop(epic_keywords(epic_title), all_pages, TRUE))

-----------------------------------------------------------------------------
(* get_all_wiki_pages: flattening of the page tree of the listing *)

\* extract_paths: a page is a record that may have the fields path and
\* subPages; the path is appended before the paths of the sub-pages
RECURSIVE extract_paths(_)
RECURSIVE ExtractSubPages(_)
extract_paths(page_data) ==
  (IF "path" \in DOMAIN page_data
   THEN <<StripChars(page_data.path, {"/"})>> ELSE <<>>)
  \o (IF "subPages" \in DOMAIN page_data
      THEN ExtractSubPages(page_data.subPages) ELSE <<>>)
ExtractSubPages(subpages) ==
  IF subpages = <<>> THEN <<>>
  ELSE extract_paths(Head(subpages)) \o ExtractSubPages(Tail(subpages))

-----------------------------------------------------------------------------
(* create_story of the tool server: title clean-up and the skip rules *)

TITLE_CAP == 255
SKIP_WINDOW == 30
MIN_TITLE_LEN == 10

skip_keywords == <<<<"a","c","c","e","p","t","a","n","c","e"," ","c","r","i","t","e","r","i","a">>,
                   <<"-","-","-">>,
                   <<"a","s"," ","a">>,
                   <<"*","*","a","s">>>>

\* clean_title: strip, drop "###", "##", "#", drop "**", collapse whitespace
CleanTitle(title) ==
  LET a == Strip(title)
      b == Replace(Replace(Replace(a, <<"#","#","#">>, <<>>), <<"#","#">>, <<>>),
                   <<"#">>, <<>>)
      c == Replace(b, <<"*","*">>, <<>>)
  IN Join(SplitWS(c), <<" ">>)

\* the phrase test on the whole title
IsBoilerplateAnywhere(clean_title) ==
  \E k \in DOMAIN skip_keywords : Contains(Lower(clean_title), skip_keywords[k])

\* any(keyword in clean_title.lower()[:30] for keyword in skip_keywords)
IsBoilerplate(clean_title) ==
  LET low == Lower(clean_title)
      window == Slice(low, 1, IF Len(low) < SKIP_WINDOW THEN Len(low) ELSE SKIP_WINDOW)
  IN \E k \in DOMAIN skip_keywords : Contains(window, skip_keywords[k])

IsTooShort(clean_title) == Len(clean_title) < MIN_TITLE_LEN

\* formatted_description: strip, "\n" -> "<br/>", bullets after a break -> the
\* bullet glyph, written here as the single character "(bullet)"
BR == <<"<","b","r","/",">">>
FormatDescription(description) ==
  LET a == Replace(Strip(description), NL, BR)
      b == Replace(a, BR \o <<"-"," ">>, BR \o <<"(bullet)"," ">>)
  IN Replace(b, BR \o <<"*"," ">>, BR \o <<"(bullet)"," ">>)

\* what create_story decides before it posts: "missing", "skipped",
\* "skipped_short" or "post"
Admission(title, description) ==
  IF title = <<>> \/ description = <<>> THEN "missing"
  ELSE IF IsBoilerplate(CleanTitle(title)) THEN "skipped"
  ELSE IF IsTooShort(CleanTitle(title)) THEN "skipped_short"
  ELSE "post"

\* the cap applied to the raw title, the clean-up after it
CappedTitleBeforeCleanup(title) ==
  CleanTitle(Slice(title, 1, IF Len(title) < TITLE_CAP THEN Len(title) ELSE TITLE_CAP))

\* the title of the work item: clean_title[:255]
CappedTitle(title) ==
  LET c == CleanTitle(title)
  IN Slice(c, 1, IF Len(c) < TITLE_CAP THEN Len(c) ELSE TITLE_CAP)


-----------------------------------------------------------------------------
(* The inputs of a run: what the remote services may answer *)

\* request.epic_id values: 0 is the falsy id
EpicIds == {0, 7}
\* the default of GenerateRequest.epic_id, None, written as an id no epic has
NoEpic == -1

T_WalletPayments == <<"W","a","l","l","e","t"," ","P","a","y","m","e","n","t","s">>
T_WalletTopUp == <<"W","a","l","l","e","t"," ","T","o","p","-","U","p"," ","F","e","a","t","u","r","e">>
T_Billing == <<"B","i","l","l","i","n","g">>
T_Blank == <<" ">>
\* System.Title values of the epic; <<>> is a missing or empty title
EpicTitles == {T_WalletPayments, T_Billing, T_Blank, <<>>}
\* request.epic_title values of find_wiki_pages
FindTitles == EpicTitles \cup {T_WalletTopUp}

P_Root == <<"/">>
P_WalletSetup == <<"/","W","a","l","l","e","t","-","S","e","t","u","p">>
P_WalletPayments == <<"/","W","a","l","l","e","t","-","P","a","y","m","e","n","t","s">>
P_Unrelated == <<"/","U","n","r","e","l","a","t","e","d","-","P","a","g","e">>
P_Refunds == <<"/","W","a","l","l","e","t","-","P","a","y","m","e","n","t","s","/","R","e","f","u","n","d","s">>

\* page trees of the listing endpoint (recursionLevel=full)
TreeFlat ==
  [path |-> P_Root,
   subPages |-> <<[path |-> P_WalletSetup], [path |-> P_WalletPayments],
                  [path |-> P_Unrelated]>>]
TreeNested ==
  [path |-> P_Root,
   subPages |-> <<[path |-> P_WalletPayments,
                   subPages |-> <<[path |-> P_Refunds]>>],
                  [path |-> P_WalletSetup]>>]
TreeBare == [id |-> 1]
PageTrees == {TreeFlat, TreeNested, TreeBare}

\* a confidence the ranking model may write
C_High == [num |-> 95, den |-> 100]
C_Low == [num |-> 1, den |-> 10]

\* the "matches" lists the ranking model may return
RankLists ==
  { <<[path |-> StripChars(P_WalletSetup, {"/"}), confidence |-> C_High,
       reason |-> "setup"]>>,
    <<[path |-> StripChars(P_WalletPayments, {"/"}), confidence |-> C_High, reason |-> "pay"],
      [path |-> StripChars(P_Unrelated, {"/"}), confidence |-> C_Low, reason |-> "weak"]>>,
    <<[confidence |-> C_High, reason |-> "no path"]>>,
    <<[path |-> StripChars(P_WalletSetup, {"/"})]>>,
    <<>> }

\* outcomes of one call_openai round trip followed by json.loads and .get:
\*   network_error  requests.post raises
\*   non200         status_code != 200
\*   bad_envelope   the body has no choices[0].message.content
\*   not_json       the content is not JSON text
\*   json_list      the content is JSON, but not an object
\*   matches_null   the object's "matches" is null
\*   no_matches     the object has no "matches"
\*   matches        the object's "matches" is the list given
RankReplies ==
  {[kind |-> k, matches |-> <<>>] :
      k \in {"network_error", "non200", "bad_envelope", "not_json", "json_list",
             "matches_null", "no_matches"}}
  \cup {[kind |-> "matches", matches |-> m] : m \in RankLists}

\* content of a wiki page
D_Doc == <<"T","o","p"," ","u","p"," ","t","h","e"," ","w","a","l","l","e","t",".">>
D_ErrorGuide == <<"E","r","r","o","r"," ","c","o","d","e","s">>
PageContents == {D_Doc, D_ErrorGuide}

\* outcomes of one page read of fetch_wiki
PageReplies ==
  {[kind |-> "ok", content |-> c] : c \in PageContents}
  \cup {[kind |-> k, content |-> <<>>] : k \in {"non200", "exception"}}

E_CouldNotFetch == <<"E","r","r","o","r",":"," ","C","o","u","l","d"," ","n","o","t"," ","f","e","t","c","h"," ","p","a","g","e">>
E_Prefix == <<"E","r","r","o","r",":"," ">>
E_Timeout == <<"t","i","m","e","d"," ","o","u","t">>
M_NoPaths == <<"N","o"," ","p","a","g","e"," ","p","a","t","h","s"," ","p","r","o","v","i","d","e","d",".">>

\* texts the generation call may return
G_Three == <<"-","-","-","S","T","O","R","Y","-","-","-","\n","T","I","T","L","E",":"," ","A","d","d"," ","P","a","y","m","e","n","t"," ","M","e","t","h","o","d","\n","D","E","S","C","R","I","P","T","I","O","N",":","\n","A","s"," ","a"," ","u","s","e","r","\n","-"," ","P","a","y","\n","-","-","-","E","N","D","-","-","-","\n","-","-","-","S","T","O","R","Y","-","-","-","\n","T","I","T","L","E",":"," ","T","o","p"," ","U","p"," ","W","a","l","l","e","t","\n","D","E","S","C","R","I","P","T","I","O","N",":","\n","B","o","d","y","\n","-","-","-","E","N","D","-","-","-","\n","-","-","-","S","T","O","R","Y","-","-","-","\n","T","I","T","L","E",":"," ","V","i","e","w"," ","W","a","l","l","e","t"," ","B","a","l","a","n","c","e","\n","D","E","S","C","R","I","P","T","I","O","N",":","\n","B","o","d","y","\n","-","-","-","E","N","D","-","-","-","\n">>
G_Mixed == <<"H","e","r","e"," ","y","o","u"," ","g","o",":","\n","-","-","-","S","T","O","R","Y","-","-","-","\n","T","I","T","L","E",":"," ","L","o","g","i","n","\n","D","E","S","C","R","I","P","T","I","O","N",":","\n","B","o","d","y","\n","-","-","-","E","N","D","-","-","-","\n","-","-","-","S","T","O","R","Y","-","-","-","\n","T","I","T","L","E",":"," ","A","c","c","e","p","t","a","n","c","e"," ","C","r","i","t","e","r","i","a","\n","D","E","S","C","R","I","P","T","I","O","N",":","\n","-"," ","W","o","r","k","s","\n","-","-","-","E","N","D","-","-","-","\n","-","-","-","S","T","O","R","Y","-","-","-","\n","T","I","T","L","E",":"," ","#","#","#"," ","A","d","d"," ","P","a","y","m","e","n","t"," ","M","e","t","h","o","d"," ","#","#","#","\n","D","E","S","C","R","I","P","T","I","O","N",":","\n","B","o","d","y","\n","*"," ","P","a","y","\n","-","-","-","E","N","D","-","-","-","\n">>
G_Prose == <<"N","o"," ","s","t","o","r","i","e","s",".">>
GeneratedTexts == {G_Three, G_Mixed, G_Prose}

-----------------------------------------------------------------------------
(* The tool server's handlers, as functions of the replies of Azure DevOps *)

SectionHead(page_path) == <<"=","=","="," ">> \o page_path \o <<" ","=","=","=","\n">>

\* one iteration of the loop of fetch_wiki: the section appended for a page
WikiSection(page_path, reply) ==
  IF reply.kind = "ok" THEN SectionHead(page_path) \o reply.content \o NL
  ELSE IF reply.kind = "non200" THEN SectionHead(page_path) \o E_CouldNotFetch \o NL
  ELSE SectionHead(page_path) \o E_Prefix \o E_Timeout \o NL

\* fetch_wiki: replies[i] is the reply to the read of page_paths[i]
fetch_wiki(page_paths, replies) ==
  IF page_paths = <<>> THEN M_NoPaths
  ELSE Join([i \in 1..Len(page_paths) |-> WikiSection(page_paths[i], replies[i])], NL)

\* replies of the work-item creation endpoint to one POST:
\*   created    200 and a JSON object
\*   rejected   any other status
\*   exception  requests.post raises
ItemReplies == {"created", "rejected", "exception"}

\* the "result" text create_story returns, by its leading words
create_story_result(title, description, reply) ==
  LET a == Admission(title, description)
  IN IF a = "missing" THEN "Missing title or description."
     ELSE IF a = "skipped" THEN "Skipped"
     ELSE IF a = "skipped_short" THEN "Skipped short title"
     ELSE IF reply = "created" THEN "Successfully created Issue"
     ELSE IF reply = "rejected" THEN "Error <status>"
     ELSE "Error posting to Azure Boards"

\* create_story posts to Azure DevOps exactly when the filter lets the title through
create_story_posts(title, description) == Admission(title, description) = "post"

\* the work item Azure DevOps holds after a successful POST of create_story
WorkItem(title, description, epic) ==
  [title |-> CappedTitle(title),
   description |-> FormatDescription(description),
   parent |-> IF epic = NoEpic \/ epic = 0 THEN NoEpic ELSE epic]

-----------------------------------------------------------------------------
(* State *)

VARIABLES
  pc,               \* the statement the handler is at; "idle" before a request
  entry,            \* the handler that received the request
  json_error_is_request_exception,
                    \* the installed requests raises a RequestException subclass
                    \* from Response.json() (2.27 and later) or a plain ValueError
  epic_id,          \* request.epic_id
  epic_title,       \* generate_from_epic: epic_title; find_wiki_pages: request.epic_title
  all_pages,        \* all_pages
  matched_pages,    \* matched_pages
  rank_source,      \* which branch produced matched_pages: "model", "fallback", "no_key"
  wiki_page_paths,  \* request.wiki_page_paths of generate_stories
  wiki_content,     \* wiki_content
  stories,          \* stories = parse_stories(llm_output)
  idx,              \* the index of the next story of the publish loop
  created_stories,  \* created_stories
  response,         \* what the handler returned or raised
  calls,            \* the remote calls issued so far, in order
  work_items,       \* the work items Azure DevOps created
  parse_pc,         \* a stand-alone use of parse_stories: "input", "parsed", "reparsed"
  text,             \* its argument llm_output
  parsed,           \* parse_stories(text)
  reparsed,         \* parse_stories of the re-serialized records
  filter_pc,        \* a stand-alone call of the create_story tool: "input", "returned"
  tool_args,        \* its args: title, description, epic_id
  tool_out,         \* its result text and the payloads it posted
  match_pc,         \* a stand-alone use of the keyword scorer: "input", "matched"
  phrase,           \* its epic title
  variant,          \* the same title in another letter case
  candidates,       \* its all_pages
  match_out,        \* the matched pages of both handlers, for both titles
  list_pc,          \* a stand-alone use of extract_paths: "input", "flattened"
  page_tree,        \* its argument: the body of the page listing
  flat_paths        \* extract_paths(page_tree)

vars == <<pc, entry, json_error_is_request_exception, epic_id, epic_title, all_pages,
          matched_pages, rank_source, wiki_page_paths, wiki_content, stories, idx,
          created_stories, response, calls, work_items,
          parse_pc, text, parsed, reparsed,
          filter_pc, tool_args, tool_out,
          match_pc, phrase, variant, candidates, match_out,
          list_pc, page_tree, flat_paths>>

parser_vars == <<parse_pc, text, parsed, reparsed>>

filter_vars == <<filter_pc, tool_args, tool_out>>

matcher_vars == <<match_pc, phrase, variant, candidates, match_out>>

\* the variables of the functions used on their own
lister_vars == <<list_pc, page_tree, flat_paths>>

unit_vars == <<parser_vars, filter_vars, matcher_vars, lister_vars>>

pipeline_vars == <<pc, entry, json_error_is_request_exception, epic_id, epic_title,
                   all_pages, matched_pages, rank_source, wiki_page_paths, wiki_content,
                   stories, idx, created_stories, response, calls, work_items>>

Pending == [pending |-> TRUE]

\* a remote call: n is the story index of a publish call, the page index of a
\* page read, 0 otherwise
Call(op, n, ok) == [op |-> op, n |-> n, ok |-> ok]

\* no request received yet
PipelineIdle ==
  /\ pc = "idle"
  /\ entry = "none"
  /\ epic_id = NoEpic
  /\ epic_title = <<>>
  /\ all_pages = <<>>
  /\ matched_pages = <<>>
  /\ rank_source = "none"
  /\ wiki_page_paths = <<>>
  /\ wiki_content = <<>>
  /\ stories = <<>>
  /\ idx = 1
  /\ created_stories = <<>>
  /\ response = Pending
  /\ calls = <<>>
  /\ work_items = <<>>

\* parse_stories not in stand-alone use
ParserIdle ==
  /\ parse_pc = "unused"
  /\ text = <<>>
  /\ parsed = <<>>
  /\ reparsed = <<>>

\* create_story not in stand-alone use
FilterIdle ==
  /\ filter_pc = "unused"
  /\ tool_args = <<>>
  /\ tool_out = <<>>

\* the keyword scorer not in stand-alone use
MatcherIdle ==
  /\ match_pc = "unused"
  /\ phrase = <<>>
  /\ variant = <<>>
  /\ candidates = <<>>
  /\ match_out = <<>>

\* extract_paths not in stand-alone use
ListerIdle ==
  /\ list_pc = "unused"
  /\ page_tree = <<>>
  /\ flat_paths = <<>>

Init ==
  /\ PipelineIdle
  /\ json_error_is_request_exception \in BOOLEAN
  /\ ParserIdle
  /\ FilterIdle
  /\ MatcherIdle
  /\ ListerIdle

\* return <value> of the entry handler
Return(value) == /\ response' = value
                 /\ pc' = "done"

\* raise <exc> inside generate_stories: generate_from_epic catches it in its
\* step 3, a direct caller of generate_stories gets it
RaiseInStories(exc) ==
  IF entry = "generate_from_epic"
  THEN Return([error |-> "Story generation failed"])
  ELSE Return(exc)

HTTPException(status_code, detail) ==
  [raised |-> "HTTPException", status_code |-> status_code, detail |-> detail]

Unhandled(name) == [raised |-> name]

-----------------------------------------------------------------------------
(* generate_from_epic, steps 1 and 2 *)

\* the request arrives; "if not epic_id"
ReceiveEpicRequest ==
  /\ pc = "idle"
  /\ \E e \in EpicIds :
       /\ epic_id' = e
       /\ entry' = "generate_from_epic"
       /\ IF e = 0
          THEN Return([error |-> "No epic ID provided"])
          ELSE pc' = "read_epic" /\ UNCHANGED response
  /\ UNCHANGED <<json_error_is_request_exception, epic_title, all_pages, matched_pages,
                 rank_source, wiki_page_paths, wiki_content, stories, idx,
                 created_stories, calls, work_items>>
  /\ UNCHANGED unit_vars

\* replies to the work-item read: the request raises, a status other than 200,
\* a body that is no JSON object, or the fields with the title given
EpicReplies ==
  {[kind |-> k, title |-> <<>>] : k \in {"exception", "non200", "bad_body"}}
  \cup {[kind |-> "ok", title |-> ttl] : ttl \in EpicTitles}

\* a variant of EpicError without the "if not epic_title" return
EpicErrorNoTitleCheck(reply) ==
  IF reply.kind \in {"exception", "bad_body"} THEN "Failed to read Epic"
  ELSE IF reply.kind = "non200" THEN "Failed to fetch Epic"
  ELSE "none"

\* the error step 1 returns for a reply, "none" when it goes on to step 2
EpicError(reply) ==
  IF reply.kind \in {"exception", "bad_body"} THEN "Failed to read Epic"
  ELSE IF reply.kind = "non200" THEN "Failed to fetch Epic"
  ELSE IF reply.title = <<>> THEN "Epic has no title"
  ELSE "none"

\* Step 1: get the epic title
FetchEpic ==
  /\ pc = "read_epic"
  /\ \E reply \in EpicReplies :
       /\ calls' = Append(calls, Call("GetEpic", 0, reply.kind = "ok"))
       /\ IF EpicError(reply) # "none"
          THEN Return([error |-> EpicError(reply)]) /\ UNCHANGED epic_title
          ELSE /\ epic_title' = reply.title
               /\ pc' = "list_pages"
               /\ UNCHANGED response
  /\ UNCHANGED <<entry, json_error_is_request_exception, epic_id, all_pages,
                 matched_pages, rank_source, wiki_page_paths, wiki_content, stories,
                 idx, created_stories, work_items>>
  /\ UNCHANGED unit_vars

\* replies to the two reads of get_all_wiki_pages
ListReplies ==
  {[kind |-> k, tree |-> TreeBare] :
      k \in {"wikis_exception", "wikis_non200", "wikis_empty", "pages_non200"}}
  \cup {[kind |-> "ok", tree |-> tr] : tr \in PageTrees}

\* the calls get_all_wiki_pages issues
ListCalls(reply) ==
  IF reply.kind \in {"wikis_exception", "wikis_non200", "wikis_empty"}
  THEN <<Call("ListWikis", 0, reply.kind = "wikis_empty")>>
  ELSE <<Call("ListWikis", 0, TRUE), Call("ListPages", 0, reply.kind = "ok")>>

\* get_all_wiki_pages raises
ListRaises(reply) == reply.kind \in {"wikis_exception", "wikis_non200", "pages_non200"}

\* the value get_all_wiki_pages returns
get_all_wiki_pages(reply) ==
  IF reply.kind = "wikis_empty" THEN <<>> ELSE extract_paths(reply.tree)

\* the empty-listing return without the story count
NoPagesResponseNoCount(handler) ==
  IF handler = "generate_from_epic"
  THEN [error |-> "No wiki pages found in project"]
  ELSE [pages |-> <<>>]

\* `if not all_pages: return ...` of either handler
NoPagesResponse(handler) ==
  IF handler = "generate_from_epic"
  THEN [error |-> "No wiki pages found in project", story_count |-> 0]
  ELSE [pages |-> <<>>]

\* Step 2, first half: all_pages = await get_all_wiki_pages(), in either handler
GetAllWikiPages ==
  /\ pc = "list_pages"
  /\ \E reply \in ListReplies :
       /\ calls' = calls \o ListCalls(reply)
       /\ IF ListRaises(reply)
          THEN /\ UNCHANGED all_pages
               /\ IF entry = "generate_from_epic"
                  THEN Return([error |-> "Wiki search failed"])
                  ELSE Return(HTTPException(500, "Failed to fetch wiki pages"))
          ELSE /\ all_pages' = get_all_wiki_pages(reply)
               /\ IF all_pages' = <<>>
                  THEN Return(NoPagesResponse(entry))
                  ELSE pc' = "rank" /\ UNCHANGED response
  /\ UNCHANGED <<entry, json_error_is_request_exception, epic_id, epic_title,
                 matched_pages, rank_source, wiki_page_paths, wiki_content, stories,
                 idx, created_stories, work_items>>
  /\ UNCHANGED unit_vars

\* the try block of the model ranking raises: call_openai raises, json.loads
\* raises, result.get does not exist, or len(matches) does not exist
ModelRankFails(reply) ==
  reply.kind \in {"network_error", "non200", "bad_envelope", "not_json", "json_list",
                  "matches_null"}

\* result.get("matches", []) when the try block completes
ModelRankResult(reply) == IF reply.kind = "no_matches" THEN <<>> ELSE reply.matches

\* matched_pages of generate_from_epic; has_key is os.getenv('OPENAI_API_KEY').
\* raised: ZeroDivisionError left the keyword loop
RankEpic(has_key, reply, title, pages) ==
  IF has_key /\ ~ModelRankFails(reply)
  THEN [raised |-> FALSE, matched |-> ModelRankResult(reply), source |-> "model"]
  ELSE [raised |-> KeywordRaises(title, pages),
        matched |-> IF KeywordRaises(title, pages) THEN <<>>
                    ELSE KeywordMatchEpic(title, pages),
        source |-> IF has_key THEN "fallback" ELSE "no_key"]

\* pages of find_wiki_pages: the model is always asked
RankFind(reply, title, pages) ==
  IF ~ModelRankFails(reply)
  THEN [raised |-> FALSE, matched |-> ModelRankResult(reply), source |-> "model"]
  ELSE [raised |-> KeywordRaises(title, pages),
        matched |-> IF KeywordRaises(title, pages) THEN <<>>
                    ELSE KeywordMatchFind(title, pages),
        source |-> "fallback"]

\* [p["path"] for p in matched_pages] raises KeyError
PathMissing(matched) == \E i \in DOMAIN matched : "path" \notin DOMAIN matched[i]

PathsOf(matched) == [i \in DOMAIN matched |-> matched[i].path]

\* Step 2, second half, and the construction of the GenerateRequest of step 3
RankPagesEpic ==
  /\ pc = "rank"
  /\ entry = "generate_from_epic"
  /\ \E has_key \in BOOLEAN, reply \in RankReplies :
       LET r == RankEpic(has_key, reply, epic_title, all_pages)
       IN /\ calls' = IF has_key
                      THEN Append(calls, Call("RankDocuments", 0, ~ModelRankFails(reply)))
                      ELSE calls
          /\ rank_source' = r.source
          /\ matched_pages' = r.matched
          /\ IF r.raised
             THEN Return([error |-> "Wiki search failed"]) /\ UNCHANGED wiki_page_paths
             ELSE IF r.matched = <<>>
             THEN /\ Return([error |-> "No related wiki pages found for this Epic",
                             story_count |-> 0])
                  /\ UNCHANGED wiki_page_paths
             ELSE IF PathMissing(r.matched)
             THEN Return([error |-> "Story generation failed"]) /\ UNCHANGED wiki_page_paths
             ELSE /\ wiki_page_paths' = PathsOf(r.matched)
                  /\ pc' = "fetch_wiki"
                  /\ UNCHANGED response
  /\ UNCHANGED <<entry, json_error_is_request_exception, epic_id, epic_title, all_pages,
                 wiki_content, stories, idx, created_stories, work_items>>
  /\ UNCHANGED unit_vars

-----------------------------------------------------------------------------
(* find_wiki_pages *)

ReceiveFindRequest ==
  /\ pc = "idle"
  /\ \E title \in FindTitles :
       /\ epic_title' = title
       /\ entry' = "find_wiki_pages"
       /\ pc' = "list_pages"
  /\ UNCHANGED <<json_error_is_request_exception, epic_id, all_pages, matched_pages,
                 rank_source, wiki_page_paths, wiki_content, stories, idx,
                 created_stories, response, calls, work_items>>
  /\ UNCHANGED unit_vars

RankPagesFind ==
  /\ pc = "rank"
  /\ entry = "find_wiki_pages"
  /\ \E reply \in RankReplies :
       LET r == RankFind(reply, epic_title, all_pages)
       IN /\ calls' = Append(calls, Call("RankDocuments", 0, ~ModelRankFails(reply)))
          /\ rank_source' = r.source
          /\ matched_pages' = r.matched
          /\ IF r.raised
             THEN Return(Unhandled("ZeroDivisionError"))
             ELSE Return([pages |-> r.matched])
  /\ UNCHANGED <<entry, json_error_is_request_exception, epic_id, epic_title, all_pages,
                 wiki_page_paths, wiki_content, stories, idx, created_stories,
                 work_items>>
  /\ UNCHANGED unit_vars

-----------------------------------------------------------------------------
(* generate_stories: called by step 3 of generate_from_epic, or directly *)

\* request.wiki_page_paths of a direct request
DirectPaths == {<<>>, <<StripChars(P_WalletSetup, {"/"})>>}

ReceiveStoriesRequest ==
  /\ pc = "idle"
  /\ \E paths \in DirectPaths, e \in {NoEpic, 7} :
       /\ wiki_page_paths' = paths
       /\ epic_id' = e
       /\ entry' = "generate_stories"
       /\ pc' = "fetch_wiki"
  /\ UNCHANGED <<json_error_is_request_exception, epic_title, all_pages, matched_pages,
                 rank_source, wiki_content, stories, idx, created_stories, response,
                 calls, work_items>>
  /\ UNCHANGED unit_vars

ERROR_WORD == <<"E","r","r","o","r">>

\* replies of the tool server to POST /tools/fetch_wiki/run:
\*   connect_error  requests.post raises a RequestException
\*   non200         a status other than 200
\*   not_json       200 and a body that is not JSON
\*   no_result      200 and a JSON object without "result"
\*   ok             200 and the object fetch_wiki returns
FetchReplies == {"connect_error", "non200", "not_json", "no_result", "ok"}

PageCalls(replies) ==
  [i \in DOMAIN replies |-> Call("FetchDocumentContent", i, replies[i].kind = "ok")]

\* "Fetch wiki content", up to the check of wiki_content
FetchWikiContent ==
  /\ pc = "fetch_wiki"
  /\ \E http \in FetchReplies :
       \E replies \in [1..Len(wiki_page_paths) -> PageReplies] :
         LET content == IF http = "ok" THEN fetch_wiki(wiki_page_paths, replies)
                        ELSE <<>>
         IN /\ calls' = Append(calls, Call("FetchWikiTool", 0, http = "ok"))
                        \o (IF http = "ok" THEN PageCalls(replies) ELSE <<>>)
            /\ IF http = "connect_error"
               THEN /\ RaiseInStories(HTTPException(500, "Could not connect to MCP server"))
                    /\ UNCHANGED wiki_content
               ELSE IF http = "non200"
               THEN /\ RaiseInStories(HTTPException(500, "Failed to fetch wiki pages"))
                    /\ UNCHANGED wiki_content
               ELSE IF http = "not_json"
               THEN /\ IF json_error_is_request_exception
                       THEN RaiseInStories(HTTPException(500, "Could not connect to MCP server"))
                       ELSE RaiseInStories(Unhandled("ValueError"))
                    /\ UNCHANGED wiki_content
               ELSE /\ wiki_content' = content
                    /\ IF Contains(content, ERROR_WORD) \/ content = <<>>
                       THEN RaiseInStories(HTTPException(404, "Wiki pages not found"))
                       ELSE pc' = "generate" /\ UNCHANGED response
  /\ UNCHANGED <<entry, json_error_is_request_exception, epic_id, epic_title, all_pages,
                 matched_pages, rank_source, wiki_page_paths, stories, idx,
                 created_stories, work_items>>
  /\ UNCHANGED unit_vars

\* outcomes of the generation call: call_openai raises (three ways), returns a
\* content that is no string, or returns the text given
GenerateReplies ==
  {[kind |-> k, text |-> <<>>] :
      k \in {"network_error", "non200", "bad_envelope", "null_content"}}
  \cup {[kind |-> "ok", text |-> g] : g \in GeneratedTexts}

\* the generation call and stories = parse_stories(llm_output)
GenerateText ==
  /\ pc = "generate"
  /\ \E reply \in GenerateReplies :
       /\ calls' = Append(calls, Call("GenerateText", 0, reply.kind = "ok"))
       /\ IF reply.kind \in {"network_error", "non200", "bad_envelope"}
          THEN /\ RaiseInStories(HTTPException(500, "LLM generation failed"))
               /\ UNCHANGED <<stories, idx, created_stories>>
          ELSE IF reply.kind = "null_content"
          THEN /\ RaiseInStories(Unhandled("AttributeError"))
               /\ UNCHANGED <<stories, idx, created_stories>>
          ELSE /\ stories' = parse_stories(reply.text)
               /\ idx' = 1
               /\ created_stories' = <<>>
               /\ pc' = "publish"
               /\ UNCHANGED response
  /\ UNCHANGED <<entry, json_error_is_request_exception, epic_id, epic_title, all_pages,
                 matched_pages, rank_source, wiki_page_paths, wiki_content, work_items>>
  /\ UNCHANGED unit_vars

\* replies of the tool server to POST /tools/create_story/run:
\*   connect_error  requests.post raises a RequestException
\*   non200         a status other than 200, create_story did not complete
\*   not_json       200 and a body that is not JSON
\*   not_dict       200 and JSON that is not an object
\*   ok             200 and the object create_story returns
\* item is the reply of Azure DevOps to the POST of create_story, if it runs
PublishReplies ==
  {[kind |-> k, item |-> "exception"] :
      k \in {"connect_error", "non200", "not_json", "not_dict"}}
  \cup {[kind |-> "ok", item |-> i] : i \in ItemReplies}

\* create_story handled the request
ToolRan(reply) == reply.kind = "ok"

\* the entry appended to created_stories by one iteration; "raise" when the
\* iteration leaves the loop with an exception instead
PublishOutcome(story, reply, json_caught) ==
  IF reply.kind = "ok"
  THEN [title |-> story.title, status |-> "created",
        result |-> create_story_result(story.title, story.description, reply.item)]
  ELSE IF reply.kind = "non200"
  THEN [title |-> story.title, status |-> "failed", error |-> "response text"]
  ELSE IF reply.kind = "connect_error"
  THEN [title |-> story.title, status |-> "failed", error |-> "request exception"]
  ELSE IF reply.kind = "not_json" /\ json_caught
  THEN [title |-> story.title, status |-> "failed", error |-> "request exception"]
  ELSE [raise |-> IF reply.kind = "not_json" THEN "ValueError" ELSE "AttributeError"]

\* the calls of an iteration that repeats a failed tool call once
PublishCallsRetry(story, n, reply) ==
  IF ToolRan(reply)
  THEN <<Call("CreateStoryTool", n, TRUE)>>
       \o (IF create_story_posts(story.title, story.description)
           THEN <<Call("CreateItem", n, reply.item = "created")>>
           ELSE <<>>)
  ELSE <<Call("CreateStoryTool", n, FALSE), Call("CreateStoryTool", n, FALSE)>>

\* the calls one iteration issues: the tool call, and the item creation when
\* create_story runs and lets the title through
PublishCalls(story, n, reply) ==
  <<Call("CreateStoryTool", n, reply.kind = "ok")>>
  \o (IF ToolRan(reply) /\ create_story_posts(story.title, story.description)
      THEN <<Call("CreateItem", n, reply.item = "created")>>
      ELSE <<>>)

\* the work items one iteration adds
PublishItems(story, reply, epic) ==
  IF /\ ToolRan(reply)
     /\ create_story_posts(story.title, story.description)
     /\ reply.item = "created"
  THEN <<WorkItem(story.title, story.description, epic)>>
  ELSE <<>>

\* one iteration of "for idx, story in enumerate(stories, 1)"
PublishStory ==
  /\ pc = "publish"
  /\ idx <= Len(stories)
  /\ \E reply \in PublishReplies :
       LET story == stories[idx]
           out == PublishOutcome(story, reply, json_error_is_request_exception)
       IN /\ calls' = calls \o PublishCalls(story, idx, reply)
          /\ work_items' = work_items \o PublishItems(story, reply, epic_id)
          /\ IF "raise" \in DOMAIN out
             THEN /\ RaiseInStories(Unhandled(out.raise))
                  /\ UNCHANGED <<idx, created_stories>>
             ELSE /\ created_stories' = Append(created_stories, out)
                  /\ idx' = idx + 1
                  /\ UNCHANGED <<pc, response>>
  /\ UNCHANGED <<entry, json_error_is_request_exception, epic_id, epic_title, all_pages,
                 matched_pages, rank_source, wiki_page_paths, wiki_content, stories>>
  /\ UNCHANGED unit_vars

\* len([s for s in result["stories"] if s["status"] == "created"])
CountCreated(outcomes) ==
  Cardinality({i \in DOMAIN outcomes : outcomes[i].status = "created"})

\* the return of generate_stories and, in generate_from_epic, the envelope
\* built from it
ReturnStories ==
  /\ pc = "publish"
  /\ idx > Len(stories)
  /\ IF entry = "generate_from_epic"
     THEN Return([success |-> TRUE,
                  story_count |-> CountCreated(created_stories),
                  message |-> CountCreated(created_stories),
                  wiki_pages_used |-> Len(matched_pages)])
     ELSE Return([message |-> Len(stories), stories |-> created_stories])
  /\ UNCHANGED <<entry, json_error_is_request_exception, epic_id, epic_title, all_pages,
                 matched_pages, rank_source, wiki_page_paths, wiki_content, stories, idx,
                 created_stories, calls, work_items>>
  /\ UNCHANGED unit_vars

Next ==
  \/ ReceiveEpicRequest
  \/ FetchEpic
  \/ GetAllWikiPages
  \/ RankPagesEpic
  \/ ReceiveFindRequest
  \/ RankPagesFind
  \/ ReceiveStoriesRequest
  \/ FetchWikiContent
  \/ GenerateText
  \/ PublishStory
  \/ ReturnStories

Spec == Init /\ [][Next]_vars

-----------------------------------------------------------------------------
(* parse_stories on its own: texts put together from pieces, parsed, the   *)
(* records written back in the block format and parsed again               *)

MaxPieces == 3

PC_Start == STORY_DELIM \o NL
PC_End == END_DELIM \o NL
PC_Body == <<"T","I","T","L","E",":"," ","P","a","y","\n","D","E","S","C","R","I","P","T","I","O","N",":","\n","B","o","d","y","\n">>
PC_NestedTitle == <<"T","I","T","L","E",":"," ","T","I","T","T","I","T","L","E",":","L","E",":"," ","x","\n">>
PC_DescInline == <<"D","E","S","C","R","I","P","T","I","O","N",":"," ","M","o","r","e","\n">>
PC_EmptyTitle == <<"T","I","T","L","E",":","\n">>
PC_Line == <<" ","-"," ","L","i","n","e"," ","\n","\n">>
\* a block that is opened and never closed
PC_Open == <<"-","-","-","S","T","O","R","Y","-","-","-","\n","T","I","T","L","E",":"," ","X","\n","D","E","S","C","R","I","P","T","I","O","N",":","\n","Y">>
\* a complete block
PC_Block == PC_Start \o PC_Body \o PC_End
ParsePieces == {PC_Start, PC_End, PC_Body, PC_NestedTitle, PC_DescInline,
                PC_EmptyTitle, PC_Line, PC_Open, PC_Block}

ParseInputs ==
  {Concat(ps) : ps \in UNION {[1..n -> ParsePieces] : n \in 0..MaxPieces}}

\* a record in the block format of the generation prompt
SerializeStory(story) ==
  STORY_DELIM \o NL \o TITLE_MARK \o <<" ">> \o story.title \o NL
  \o DESC_MARK \o NL \o story.description \o NL \o END_DELIM

Serialize(records) == Concat([i \in DOMAIN records |-> SerializeStory(records[i])])

ParseInit ==
  /\ PipelineIdle
  /\ json_error_is_request_exception = TRUE
  /\ parse_pc = "input"
  /\ text \in ParseInputs
  /\ parsed = <<>>
  /\ reparsed = <<>>
  /\ FilterIdle
  /\ MatcherIdle
  /\ ListerIdle

Parse ==
  /\ parse_pc = "input"
  /\ parsed' = parse_stories(text)
  /\ parse_pc' = "parsed"
  /\ UNCHANGED <<text, reparsed>>
  /\ UNCHANGED <<pipeline_vars, filter_vars, matcher_vars, lister_vars>>

Reparse ==
  /\ parse_pc = "parsed"
  /\ reparsed' = parse_stories(Serialize(parsed))
  /\ parse_pc' = "reparsed"
  /\ UNCHANGED <<text, parsed>>
  /\ UNCHANGED <<pipeline_vars, filter_vars, matcher_vars, lister_vars>>

ParseNext == Parse \/ Reparse

ParseSpec == ParseInit /\ [][ParseNext]_vars

-----------------------------------------------------------------------------
(* create_story on its own: titles put together from pieces, handed to the *)
(* tool with a description and an epic id                                  *)

MaxTitlePieces == 3
LongRepeats == 14

TP_Login == <<"L","o","g","i","n">>
TP_Criteria == <<"A","c","c","e","p","t","a","n","c","e"," ","C","r","i","t","e","r","i","a">>
\* markup, a space, a boilerplate prefix, two fillers, a separator
TitlePieces ==
  {TP_Login, TP_Criteria,
   <<"#">>, <<"*","*">>, <<"*">>, <<" ">>,
   <<"A","s"," ","a"," ">>,
   <<"W","a","l","l","e","t"," ","t","o","p","-","u","p">>,
   <<"P","a","y"," ","b","i","l","l","s"," ","n","o","w"," ">>,
   <<"-","-","-">>}

T_Heading == <<"#","#","#"," ","A","d","d"," ","P","a","y","m","e","n","t"," ","M","e","t","h","o","d"," ","#","#","#">>

\* a title longer than the field of the work item: "Add Payment Method "
\* LongRepeats times
T_Long ==
  Concat([i \in 1..LongRepeats |->
            <<"A","d","d"," ","P","a","y","m","e","n","t"," ","M","e","t","h","o","d"," ">>])

\* the titles of the pieces, the heading, the long title plain and as a heading
ToolTitles ==
  {Concat(ps) : ps \in UNION {[1..n -> TitlePieces] : n \in 0..MaxTitlePieces}}
  \cup {T_Heading, T_Long, <<"#","#"," ">> \o T_Long \o <<" ","*","*">>}

D_Bullets == <<"L","i","n","e","\n","-"," ","a","\n","*"," ","b">>

\* every title with a description and an epic; a few titles also without a
\* description or without args.epic_id
ToolArgs ==
  [title : ToolTitles, description : {D_Bullets}, epic_id : {7}]
  \cup [title : {<<>>, TP_Login, T_Heading}, description : {<<>>, D_Bullets},
        epic_id : {NoEpic, 7}]

FilterInit ==
  /\ PipelineIdle
  /\ json_error_is_request_exception = TRUE
  /\ ParserIdle
  /\ MatcherIdle
  /\ ListerIdle
  /\ filter_pc = "input"
  /\ tool_args \in ToolArgs
  /\ tool_out = <<>>

\* one call of the tool: the result text it returns, the payloads it posted
\* and the work items Azure DevOps created from them
CreateStory ==
  /\ filter_pc = "input"
  /\ \E reply \in ItemReplies :
       LET posts == create_story_posts(tool_args.title, tool_args.description)
           item == WorkItem(tool_args.title, tool_args.description, tool_args.epic_id)
       IN tool_out' =
            [result |-> create_story_result(tool_args.title, tool_args.description, reply),
             posted |-> IF posts THEN <<item>> ELSE <<>>,
             items |-> IF posts /\ reply = "created" THEN <<item>> ELSE <<>>]
  /\ filter_pc' = "returned"
  /\ UNCHANGED tool_args
  /\ UNCHANGED <<pipeline_vars, parser_vars, matcher_vars, lister_vars>>

FilterSpec == FilterInit /\ [][CreateStory]_vars

-----------------------------------------------------------------------------
(* The keyword scorer on its own: an epic title put together from words,   *)
(* the same title in another letter case, and a list of page paths         *)

MaxWords == 3

Words == {<<"W","a","l","l","e","t">>,
          <<"T","o","p","-","U","p">>,
          <<"F","e","a","t","u","r","e">>,
          <<"S","e","t","u","p">>,
          <<"p","a","g","e">>}

\* titles of up to MaxWords words, a word may come more than once
Phrases ==
  {Join(ws, <<" ">>) : ws \in UNION {[1..n -> Words] : n \in 0..MaxWords}}
  \cup {T_Blank}

\* str.upper()
Upper(s) ==
  [i \in 1..Len(s) |->
     IF \E k \in DOMAIN LowerChars : LowerChars[k] = s[i]
     THEN UpperChars[CHOOSE k \in DOMAIN LowerChars : LowerChars[k] = s[i]]
     ELSE s[i]]

\* the title in lower case and in upper case
CaseVariants(title) == {Lower(title), Upper(title)}

\* entries of all_pages
A_WalletSetup == <<"W","a","l","l","e","t","-","S","e","t","u","p">>
A_WalletPayments == <<"W","a","l","l","e","t","-","P","a","y","m","e","n","t","s">>
Corpus == <<A_WalletSetup, A_WalletPayments,
            <<"U","n","r","e","l","a","t","e","d","-","P","a","g","e">>>>
\* no page; the three pages; two of them around the root path ""
CandidateLists == {<<>>, Corpus, <<Corpus[3], <<>>, A_WalletSetup>>}

MatchInit ==
  /\ PipelineIdle
  /\ json_error_is_request_exception = TRUE
  /\ ParserIdle
  /\ FilterIdle
  /\ ListerIdle
  /\ match_pc = "input"
  /\ phrase \in Phrases
  /\ variant \in CaseVariants(phrase)
  /\ candidates \in CandidateLists
  /\ match_out = <<>>

\* the score of every page, in the order of the loop
Scores(title, pages) ==
  [i \in DOMAIN pages |-> KeywordScore(epic_keywords(title), pages[i])]

\* what the keyword matching of both handlers leaves for one title
FallbackOutcome(title, pages) ==
  IF KeywordRaises(title, pages)
  THEN [raised |-> "ZeroDivisionError"]
  ELSE [scores |-> Scores(title, pages),
        epic |-> KeywordMatchEpic(title, pages),
        find |-> KeywordMatchFind(title, pages)]

\* the keyword matching runs for the title and for its variant
Match ==
  /\ match_pc = "input"
  /\ match_out' = [title |-> FallbackOutcome(phrase, candidates),
                   variant |-> FallbackOutcome(variant, candidates)]
  /\ match_pc' = "matched"
  /\ UNCHANGED <<phrase, variant, candidates>>
  /\ UNCHANGED <<pipeline_vars, parser_vars, filter_vars, lister_vars>>

\* the ranking step of both handlers on the same title, pages and model
\* answer; without OPENAI_API_KEY the model call of find_wiki_pages is refused
RankBoth ==
  /\ match_pc = "matched"
  /\ \E has_key \in BOOLEAN :
       \E reply \in {r \in RankReplies :
                       r.kind \in IF has_key
                                  THEN {"non200", "not_json", "no_matches", "matches"}
                                  ELSE {"non200"}} :
         match_out' = [title |-> match_out.title,
                       variant |-> match_out.variant,
                       has_key |-> has_key,
                       reply |-> reply,
                       epic |-> RankEpic(has_key, reply, phrase, candidates),
                       find |-> RankFind(reply, phrase, candidates)]
  /\ match_pc' = "ranked"
  /\ UNCHANGED <<phrase, variant, candidates>>
  /\ UNCHANGED <<pipeline_vars, parser_vars, filter_vars, lister_vars>>

MatchNext == Match \/ RankBoth

MatchSpec == MatchInit /\ [][MatchNext]_vars

-----------------------------------------------------------------------------
(* extract_paths on its own: page trees of the listing, a root with up to  *)
(* MaxChildren pages that have up to MaxChildren sub-pages each            *)

MaxChildren == 3

\* the listing of a wiki whose i-th page below the root has shape[i]
\* sub-pages; the root page has the path "/", or no path when rooted is FALSE
ShapedTree(shape, rooted) ==
  LET sub(i, j) == [path |-> <<"/", UpperChars[i], "/", UpperChars[j]>>]
      page(i) == IF shape[i] = 0
                 THEN [path |-> <<"/", UpperChars[i]>>]
                 ELSE [path |-> <<"/", UpperChars[i]>>,
                       subPages |-> [j \in 1..shape[i] |-> sub(i, j)]]
      pages == [i \in 1..Len(shape) |-> page(i)]
  IN IF rooted THEN [path |-> <<"/">>, subPages |-> pages]
     ELSE [id |-> 1, subPages |-> pages]

ListedTrees ==
  {ShapedTree(shape, rooted) :
     shape \in UNION {[1..n -> 0..MaxChildren] : n \in 0..MaxChildren},
     rooted \in BOOLEAN}

ListInit ==
  /\ PipelineIdle
  /\ json_error_is_request_exception = TRUE
  /\ ParserIdle
  /\ FilterIdle
  /\ MatcherIdle
  /\ list_pc = "input"
  /\ page_tree \in ListedTrees
  /\ flat_paths = <<>>

\* all_paths = extract_paths(data)
ExtractPaths ==
  /\ list_pc = "input"
  /\ flat_paths' = extract_paths(page_tree)
  /\ list_pc' = "flattened"
  /\ UNCHANGED page_tree
  /\ UNCHANGED <<pipeline_vars, parser_vars, filter_vars, matcher_vars>>

ListSpec == ListInit /\ [][ExtractPaths]_vars

-----------------------------------------------------------------------------
(* Properties *)

\* the indices of the calls of one operation
CallsOf(op) == {i \in DOMAIN calls : calls[i].op = op}

\* the generation call succeeded, so the run came to the publish loop
ReachedPublish == \E i \in CallsOf("GenerateText") : calls[i].ok

\* the admission filter lets the record through
Accepted(story) == Admission(story.title, story.description) = "post"

\* the item creation for record n succeeded
ItemCreated(n) == \E i \in CallsOf("CreateItem") : calls[i].n = n /\ calls[i].ok

Statuses == [i \in DOMAIN created_stories |-> created_stories[i].status]

EpicRunDone == entry = "generate_from_epic" /\ pc = "done"

\* C1: in every run that reaches the publish stage, a record whose item
\* creation fails has the outcome status "failed" and a record whose item
\* creation succeeds has "created"; with three accepted records of which only
\* the second is not created, the statuses are created, failed, created and the
\* story count is 2.
C1_StatusFollowsItemCreation ==
  /\ \A i \in CallsOf("CreateItem") :
       calls[i].n \in DOMAIN created_stories
         => created_stories[calls[i].n].status
              = IF calls[i].ok THEN "created" ELSE "failed"
  /\ ( /\ EpicRunDone
       /\ "success" \in DOMAIN response
       /\ Len(stories) = 3
       /\ \A n \in 1..3 : Accepted(stories[n])
       /\ ItemCreated(1) /\ ~ItemCreated(2) /\ ItemCreated(3) )
     => /\ Statuses = <<"created", "failed", "created">>
        /\ response.story_count = 2

\* C2: once the publish loop is reached, the handler ends by returning one
\* outcome per parsed record, in the parser's order, after one publish call
\* per record, whatever the replies to the publish calls were. (Stated for the
\* installations whose Response.json() raises a RequestException, where a body
\* that is not JSON is a caught failure.)
C2_OneOutcomePerRecord ==
  (pc = "done" /\ ReachedPublish /\ json_error_is_request_exception)
    => /\ Len(created_stories) = Len(stories)
       /\ \A n \in DOMAIN stories : created_stories[n].title = stories[n].title
       /\ \A n \in DOMAIN stories :
            Cardinality({i \in CallsOf("CreateStoryTool") : calls[i].n = n}) = 1
       /\ "raised" \notin DOMAIN response
       /\ "error" \notin DOMAIN response

\* C3: a record the admission filter rejects has no "created" outcome, is not
\* counted in the story count, and no work item is created for it.
C3_RejectedRecordNotCreated ==
  /\ \A n \in DOMAIN created_stories :
       ~Accepted(stories[n]) => created_stories[n].status # "created"
  /\ (EpicRunDone /\ "success" \in DOMAIN response)
       => response.story_count <= Cardinality({n \in DOMAIN stories : Accepted(stories[n])})
  /\ \A n \in DOMAIN stories : ~Accepted(stories[n]) => ~ItemCreated(n)

\* C4: when the tool server answered the content fetch and at least one page
\* was read, the run goes on to the generation call: it does not end before it.
C4_PartialContentReachesGeneration ==
  ( /\ pc = "done"
    /\ \E i \in CallsOf("FetchWikiTool") : calls[i].ok
    /\ \E i \in CallsOf("FetchDocumentContent") : calls[i].ok )
  => CallsOf("GenerateText") # {}

\* an earlier call of the operation succeeded
Before(i, op) == \E j \in 1..(i - 1) : calls[j].op = op /\ calls[j].ok

\* the run ended with an error envelope and nothing published
AbortedClean ==
  /\ pc = "done"
  /\ "error" \in DOMAIN response
  /\ DOMAIN response \subseteq {"error", "story_count"}
  /\ created_stories = <<>>
  /\ work_items = <<>>

\* C5: in a run of generate_from_epic the listing is requested only after the
\* epic title was resolved, the ranking only after the listing, the content
\* fetch only after a non-empty ranked set, the generation only after the
\* content fetch, a publish call only after a successful generation; a failed
\* epic read, a missing title, an empty ranked set or a failed generation is
\* the last call of the run, which ends with an error and no partial output.
C5_StagesInSequenceFailFast ==
  entry = "generate_from_epic" =>
    /\ \A i \in DOMAIN calls :
         /\ calls[i].op \in {"ListWikis", "ListPages"}
              => Before(i, "GetEpic") /\ epic_title # <<>>
         /\ calls[i].op = "RankDocuments" => Before(i, "ListPages")
         /\ calls[i].op \in {"FetchWikiTool", "FetchDocumentContent"}
              => Before(i, "ListPages") /\ matched_pages # <<>>
         /\ calls[i].op = "GenerateText" => Before(i, "FetchWikiTool")
         /\ calls[i].op \in {"CreateStoryTool", "CreateItem"}
              => Before(i, "GenerateText")
         /\ (calls[i].op \in {"GetEpic", "GenerateText"} /\ ~calls[i].ok)
              => i = Len(calls) /\ AbortedClean
    /\ (pc \notin {"idle", "read_epic"} /\ epic_title = <<>>)
         => AbortedClean /\ Len(calls) <= 1
    /\ (pc \notin {"idle", "read_epic", "list_pages", "rank"} /\ matched_pages = <<>>)
         => /\ AbortedClean
            /\ \A i \in DOMAIN calls :
                 calls[i].op \in {"GetEpic", "ListWikis", "ListPages", "RankDocuments"}

\* C5 witness: a run that went through the epic read, the listing, the ranking
\* and the content fetch, and whose generation call failed
C5_Witness ==
  /\ EpicRunDone
  /\ \E i \in CallsOf("GenerateText") : ~calls[i].ok
  /\ \E i \in CallsOf("GetEpic") : calls[i].ok
  /\ \E i \in CallsOf("FetchDocumentContent") : calls[i].ok

PastRanking == pc \notin {"idle", "read_epic", "list_pages", "rank"}

\* C6: in generate_from_epic, whenever the model ranking attempt fails (the
\* call fails, the body is not the expected structure, or an entry lacks path
\* or confidence) the matched pages are the keyword-overlap result, the model's
\* malformed entries are not used, and the run does not end with an error of
\* the ranking step.
C6_RankingFailureFallsBack ==
  (entry = "generate_from_epic" /\ (PastRanking \/ pc = "done")) =>
    /\ rank_source = "model"
         => \A i \in DOMAIN matched_pages :
              {"path", "confidence"} \subseteq DOMAIN matched_pages[i]
    /\ rank_source = "fallback"
         => /\ matched_pages = KeywordMatchEpic(epic_title, all_pages)
            /\ response # [error |-> "Wiki search failed"]

\* the "confidence >= 0.6" the ranking prompt asks the model for
MODEL_THRESHOLD == [num |-> 6, den |-> 10]

\* C7: every match the ranking hands on has confidence >= 0.6 when it came
\* from the model and >= 0.3 when it came from the keyword fallback.
C7_ConfidenceAtLeastThreshold ==
  \A i \in DOMAIN matched_pages :
    "confidence" \in DOMAIN matched_pages[i]
      => /\ rank_source = "model"
              => ConfGE(matched_pages[i].confidence, MODEL_THRESHOLD)
         /\ rank_source \in {"fallback", "no_key"}
              => ConfGE(matched_pages[i].confidence, FALLBACK_THRESHOLD)

\* the position of a path in the candidate list
PosIn(pages, path) == CHOOSE k \in DOMAIN pages : pages[k] = path

\* C8: in both handlers the keyword fallback result holds only candidates with
\* score >= 0.3, in descending order of score, equal scores in candidate order.
C8_FallbackSortedDescending ==
  rank_source \in {"fallback", "no_key"} =>
    /\ \A i \in DOMAIN matched_pages :
         ConfGE(matched_pages[i].confidence, FALLBACK_THRESHOLD)
    /\ \A i, j \in DOMAIN matched_pages :
         i < j =>
           /\ ConfGE(matched_pages[i].confidence, matched_pages[j].confidence)
           /\ ConfGE(matched_pages[j].confidence, matched_pages[i].confidence)
                => PosIn(all_pages, matched_pages[i].path)
                     < PosIn(all_pages, matched_pages[j].path)

\* C9: generate_from_epic never raises; it ends with the success envelope,
\* whose story count is the number of "created" outcomes, exactly when the run
\* reached the publish loop, and with an error envelope otherwise. (Stated for
\* the installations whose Response.json() raises a RequestException.)
C9_SuccessOrErrorEnvelope ==
  (EpicRunDone /\ json_error_is_request_exception) =>
    /\ "raised" \notin DOMAIN response
    /\ IF ReachedPublish
       THEN /\ DOMAIN response = {"success", "story_count", "message", "wiki_pages_used"}
            /\ response.success
            /\ response.story_count = CountCreated(created_stories)
       ELSE /\ "error" \in DOMAIN response
            /\ DOMAIN response \subseteq {"error", "story_count"}

\* C10: parsing the re-serialized records of parse_stories(text) gives the
\* records of parse_stories(text) again, for every text.
C10_ParseIdempotent ==
  parse_pc = "reparsed" => reparsed = parsed

-----------------------------------------------------------------------------
(* parse_stories, block by block *)

\* the blocks of the parsed text
Blocks == Split(text, STORY_DELIM)

\* the trimmed lines of a block's content before its end delimiter
BlockLines(block) ==
  LET ls == Split(Strip(Split(block, END_DELIM)[1]), NL)
  IN [k \in DOMAIN ls |-> Strip(ls[k])]

IsTitleLine(line) == StartsWith(line, TITLE_MARK)
IsDescMarker(line) == ~IsTitleLine(line) /\ StartsWith(line, DESC_MARK)
IsTextLine(line) == line # <<>> /\ ~IsTitleLine(line) /\ ~StartsWith(line, DESC_MARK)

\* the text of a title line
TitleText(line) == Strip(Replace(line, TITLE_MARK, <<>>))

TitleLines(ls) == {k \in DOMAIN ls : IsTitleLine(ls[k])}
Last(S) == CHOOSE k \in S : \A j \in S : j <= k

\* some text line follows a description marker
HasDescriptionLine(ls) ==
  \E d \in DOMAIN ls : \E k \in DOMAIN ls :
    d < k /\ IsDescMarker(ls[d]) /\ IsTextLine(ls[k])

\* some title line of the block has text
SomeTitleHasText(block) ==
  /\ Contains(block, END_DELIM)
  /\ \E k \in TitleLines(BlockLines(block)) : TitleText(BlockLines(block)[k]) # <<>>
  /\ HasDescriptionLine(BlockLines(block))

\* the last title line of the block has text
LastTitleHasText(block) ==
  /\ Contains(block, END_DELIM)
  /\ TitleLines(BlockLines(block)) # {}
  /\ TitleText(BlockLines(block)[Last(TitleLines(BlockLines(block)))]) # <<>>
  /\ HasDescriptionLine(BlockLines(block))

-----------------------------------------------------------------------------
(* The empty listing *)

\* the listing came back and holds no page
ListingEmpty ==
  /\ entry \in {"generate_from_epic", "find_wiki_pages"}
  /\ CallsOf("ListWikis") # {}
  /\ \A i \in CallsOf("ListWikis") \cup CallsOf("ListPages") : calls[i].ok
  /\ all_pages = <<>>

\* C12: when the listing returns no page, no ranking call, no fetch, no
\* generation and no publish call is made, and generate_from_epic ends with
\* the error "No wiki pages found in project" and the story count 0.
C12_EmptyCorpusAborts ==
  ListingEmpty =>
    /\ pc = "done"
    /\ \A i \in DOMAIN calls : calls[i].op \in {"GetEpic", "ListWikis", "ListPages"}
    /\ work_items = <<>>
    /\ created_stories = <<>>
    /\ entry = "generate_from_epic" =>
         /\ "error" \in DOMAIN response
         /\ response.error = "No wiki pages found in project"
         /\ "story_count" \in DOMAIN response
         /\ response.story_count = 0
    /\ entry = "find_wiki_pages" => response = [pages |-> <<>>]

\* an epic run whose listing came back empty
C12_Witness ==
  /\ ListingEmpty
  /\ entry = "generate_from_epic"
  /\ \E i \in CallsOf("GetEpic") : calls[i].ok
-----------------------------------------------------------------------------
(* The admission filter of create_story *)

\* the tool returned for a record with a title and a description
ToolReturned ==
  /\ filter_pc = "returned"
  /\ tool_args.title # <<>>
  /\ tool_args.description # <<>>

\* p stands in s at position i
PhraseAt(s, p, i) ==
  /\ i + Len(p) - 1 <= Len(s)
  /\ \A j \in 1..Len(p) : s[i + j - 1] = p[j]

\* a fixed phrase lies within the first 30 characters of the lower-cased
\* cleaned title
BoilerplateRule(title) ==
  LET low == Lower(CleanTitle(title))
  IN \E k \in DOMAIN skip_keywords : \E i \in 1..SKIP_WINDOW :
       /\ i + Len(skip_keywords[k]) - 1 <= SKIP_WINDOW
       /\ PhraseAt(low, skip_keywords[k], i)

\* the cleaned title has fewer than 10 characters
ShortRule(title) == Len(CleanTitle(title)) < MIN_TITLE_LEN

\* C13 as stated: the tool rejects as boilerplate exactly when the phrase
\* rule holds, and as too short exactly when the cleaned title is shorter
\* than 10 characters
C13_EachRuleItsOwnRejection ==
  ToolReturned =>
    LET boilerplate == BoilerplateRule(tool_args.title)
        short == ShortRule(tool_args.title)
    IN /\ tool_out.result = "Skipped" <=> boilerplate
       /\ tool_out.result = "Skipped short title" <=> short

\* C13: the tool rejects a record as boilerplate exactly when a fixed phrase
\* lies in the lower-cased first 30 characters of the cleaned title, and as
\* too short exactly when the title is not boilerplate and its cleaned form
\* has fewer than 10 characters; "Acceptance Criteria" and "Login" are
\* rejected; a rejected record is never posted to Azure DevOps.
C13_FirstRuleRejects ==
  ToolReturned =>
    LET boilerplate == BoilerplateRule(tool_args.title)
        short == ShortRule(tool_args.title)
    IN /\ tool_out.result = "Skipped" <=> boilerplate
       /\ tool_out.result = "Skipped short title" <=> (~boilerplate /\ short)
       /\ tool_args.title = TP_Criteria => tool_out.result = "Skipped"
       /\ tool_args.title = TP_Login => tool_out.result = "Skipped short title"
       /\ (boilerplate \/ short) => (tool_out.posted = <<>> /\ tool_out.items = <<>>)
       /\ (~boilerplate /\ ~short) => Len(tool_out.posted) = 1

\* a title that both rules reject came back as boilerplate
C13_Witness ==
  /\ ToolReturned
  /\ BoilerplateRule(tool_args.title)
  /\ ShortRule(tool_args.title)
  /\ tool_out.result = "Skipped"
  /\ tool_out.posted = <<>>

\* the characters of a title that are neither markup nor whitespace
IsMarkup(ch) == ch \in Whitespace \cup {"#", "*"}
Letters(s) == SelectSeq(s, LAMBDA ch : ~IsMarkup(ch))

\* no heading symbol, no pair of emphasis markers, no run of whitespace, no
\* whitespace at either end
IsClean(c) ==
  /\ \A i \in DOMAIN c : c[i] # "#"
  /\ \A i \in 1..(Len(c) - 1) : ~(c[i] = "*" /\ c[i + 1] = "*")
  /\ \A i \in 1..(Len(c) - 1) : ~(c[i] \in Whitespace /\ c[i + 1] \in Whitespace)
  /\ c # <<>> => (c[1] \notin Whitespace /\ c[Len(c)] \notin Whitespace)

\* C14: the title posted for an accepted record is the first 255 characters
\* of the cleaned title; the cleaned title holds the characters of the whole
\* raw title without heading symbols, emphasis pairs, whitespace runs and
\* outer whitespace; "### Add Payment Method ###" is posted as
\* "Add Payment Method".
C14_PostedTitleIsCappedCleanTitle ==
  (ToolReturned /\ tool_out.posted # <<>>) =>
    LET c == CleanTitle(tool_args.title)
        posted_title == tool_out.posted[1].title
    IN /\ IsClean(c)
       /\ Letters(c) = Letters(tool_args.title)
       /\ Len(posted_title) = (IF Len(c) < TITLE_CAP THEN Len(c) ELSE TITLE_CAP)
       /\ \A i \in DOMAIN posted_title : posted_title[i] = c[i]
       /\ tool_args.title = T_Heading => posted_title = <<"A","d","d"," ","P","a","y","m","e","n","t"," ","M","e","t","h","o","d">>

\* a title whose cleaned form is longer than the cap was posted
C14_Witness ==
  /\ ToolReturned
  /\ tool_out.posted # <<>>
  /\ Len(CleanTitle(tool_args.title)) > TITLE_CAP
  /\ Len(tool_out.posted[1].title) = TITLE_CAP
  /\ \E i \in DOMAIN tool_args.title : tool_args.title[i] = "#"

\* a block with its end delimiter
IsTerminated(block) == Contains(block, END_DELIM)

R_PayBody == [title |-> <<"P","a","y">>, description |-> <<"B","o","d","y">>]

\* C15: a block without the end delimiter gives no record and no error: the
\* text "---STORY---\nTITLE: X\nDESCRIPTION:\nY" parses to nothing, the
\* records of a text are those of the text without its unterminated blocks,
\* and complete blocks before and after an unterminated one give their
\* records.
C15_UnterminatedBlockDropped ==
  parse_pc # "input" =>
    /\ text = PC_Open => parsed = <<>>
    /\ Len(parsed) <= Len(SelectSeq(Blocks, IsTerminated))
    /\ parsed = parse_stories(Join(SelectSeq(Blocks, IsTerminated), STORY_DELIM))
    /\ text = PC_Block \o PC_Open \o PC_Block => parsed = <<R_PayBody, R_PayBody>>

\* an unterminated block between two complete ones
C15_Witness ==
  /\ parse_pc = "parsed"
  /\ text = PC_Block \o PC_Open \o PC_Block
  /\ Len(parsed) = 2
  /\ \E i \in DOMAIN Blocks : ~IsTerminated(Blocks[i]) /\ Blocks[i] # <<>>

\* the lines of a block as C19 reads them: description mode begins after the
\* first line that is the description marker alone, and every non-empty line
\* after it is a description line
MarkerLines(ls) == {k \in DOMAIN ls : ls[k] = DESC_MARK}
First(S) == CHOOSE k \in S : \A j \in S : k <= j
LinesAfter(ls, d) == SelectSeq(SubSeq(ls, d + 1, Len(ls)), LAMBDA line : line # <<>>)
TitlesBefore(ls, d) == {k \in TitleLines(ls) : k < d}

\* the record C19 describes for a block, as a sequence of none or one
StatedRecord(block) ==
  LET ls == BlockLines(block)
  IN IF MarkerLines(ls) = {} THEN <<>>
     ELSE LET d == First(MarkerLines(ls))
              title == IF TitlesBefore(ls, d) = {} THEN <<>>
                       ELSE TitleText(ls[Last(TitlesBefore(ls, d))])
          IN IF title = <<>> \/ LinesAfter(ls, d) = <<>> THEN <<>>
             ELSE <<[title |-> title, description |-> Join(LinesAfter(ls, d), NL)]>>

\* C19: in a text with one terminated block, only a line that is the
\* description marker alone begins the description, every non-empty line after
\* it, whatever it begins with, is a line of the description, and the title is
\* the text of the title line before it.
C19_EveryLineAfterMarkerAppended ==
  (parse_pc # "input" /\ Len(SelectSeq(Blocks, IsTerminated)) = 1) =>
    parsed = StatedRecord(SelectSeq(Blocks, IsTerminated)[1])
-----------------------------------------------------------------------------
(* The keyword fallback *)

\* the keyword matching ran and did not raise
Matched == match_pc = "matched" /\ "raised" \notin DOMAIN match_out.title

PathsIn(pages) == [i \in DOMAIN pages |-> pages[i].path]

\* C16: for the pages Wallet-Setup, Wallet-Payments, Unrelated-Page and the
\* epic title "Wallet Top-Up Feature" the keyword fallback of either handler
\* selects Wallet-Setup and Wallet-Payments and leaves Unrelated-Page out.
C16_WalletCorpusSelection ==
  (Matched /\ phrase = T_WalletTopUp /\ candidates = Corpus) =>
    /\ PathsIn(match_out.title.epic) = <<A_WalletSetup, A_WalletPayments>>
    /\ PathsIn(match_out.title.find) = <<A_WalletSetup, A_WalletPayments>>

\* the fallback ran on the example
C16_Witness ==
  /\ Matched
  /\ phrase = T_WalletTopUp
  /\ candidates = Corpus
  /\ Len(match_out.title.epic) = 2

\* C17: two titles that differ only in letter case give every page the same
\* score and both handlers the same matched pages.
C17_CaseInsensitive ==
  (match_pc = "matched" /\ Lower(variant) = Lower(phrase)) =>
    match_out.variant = match_out.title

\* a title with capitals and its lower-case form were matched, and a page was
\* selected
C17_Witness ==
  /\ Matched
  /\ variant # phrase
  /\ Lower(variant) = Lower(phrase)
  /\ candidates = Corpus
  /\ match_out.title.epic # <<>>
  /\ match_out.variant = match_out.title

\* the distinct keywords of a title
KeywordSet(title) ==
  {SplitWS(Lower(title))[i] : i \in DOMAIN SplitWS(Lower(title))}

\* distinct keywords found in the page path, over distinct keywords
SetScore(title, page) ==
  [num |-> Cardinality({w \in KeywordSet(title) : Contains(Lower(page), w)}),
   den |-> Cardinality(KeywordSet(title))]

ConfEQ(a, b) == a.num * b.den = b.num * a.den

\* C20: the score of every page is the number of distinct keywords of the
\* title found in the lower-cased path over the number of distinct keywords,
\* and a page is kept exactly when that quotient is at least 0.3.
C20_ScoreOverKeywordSet ==
  Matched =>
    \A i \in DOMAIN candidates :
      /\ ConfEQ(match_out.title.scores[i], SetScore(phrase, candidates[i]))
      /\ (\E j \in DOMAIN match_out.title.epic :
            match_out.title.epic[j].path = candidates[i])
           <=> ConfGE(SetScore(phrase, candidates[i]), FALLBACK_THRESHOLD)
-----------------------------------------------------------------------------
(* Retries *)

\* the calls of one operation for one record
CallsFor(op, n) == {i \in CallsOf(op) : calls[i].n = n}

\* C18: in every run the epic read, each of the two listing requests, the
\* ranking call, the wiki tool call and the generation call are issued at most
\* once, and every parsed record is the subject of at most one publish call
\* and one item creation, whichever calls fail.
C18_NoRetry ==
  /\ \A op \in {"GetEpic", "ListWikis", "ListPages", "RankDocuments",
                "FetchWikiTool", "GenerateText"} :
       Cardinality(CallsOf(op)) <= 1
  /\ \A n \in 1..Len(stories) :
       /\ Cardinality(CallsFor("CreateStoryTool", n)) <= 1
       /\ Cardinality(CallsFor("CreateItem", n)) <= 1
  /\ \A i \in CallsOf("CreateStoryTool") : calls[i].n \in 1..Len(stories)

\* an epic run in which a publish call failed and the loop went on to the
\* next record
C18_Witness ==
  /\ entry = "generate_from_epic"
  /\ pc = "done"
  /\ \E i \in CallsOf("CreateStoryTool") : \E j \in CallsOf("CreateStoryTool") :
       /\ ~calls[i].ok
       /\ i < j
       /\ calls[j].n = calls[i].n + 1
  /\ \E i \in CallsOf("RankDocuments") : ~calls[i].ok
-----------------------------------------------------------------------------
(* The ranking step of the two handlers *)

\* the paths of the entries that have one
RankedPaths(matched) ==
  PathsOf(SelectSeq(matched, LAMBDA e : "path" \in DOMAIN e))

\* C21: for the same title, pages and outcome of the model call, with or
\* without a configured key, the ranking step of generate_from_epic and
\* find_wiki_pages either both raise or give the same sequence of page paths.
C21_VariantsAgree ==
  match_pc = "ranked" =>
    /\ match_out.epic.raised = match_out.find.raised
    /\ RankedPaths(match_out.epic.matched) = RankedPaths(match_out.find.matched)
-----------------------------------------------------------------------------
(* The flattening of the page tree *)

\* a page of the tree and the pages below it
RECURSIVE PagesBelow(_)
PagesBelow(page) ==
  {page} \cup (IF "subPages" \in DOMAIN page
               THEN UNION {PagesBelow(page.subPages[i]) : i \in DOMAIN page.subPages}
               ELSE {})

HasPath(page) == "path" \in DOMAIN page

\* the path of a page as the listing of paths names it
Ref(page) == StripChars(page.path, {"/"})

Places(page) == {i \in DOMAIN flat_paths : flat_paths[i] = Ref(page)}
Place(page) == CHOOSE i \in Places(page) : TRUE

\* C22: the flattened listing holds the path of every page of the tree exactly
\* once, a page before the pages below it, the pages of one parent in the order
\* of the listing with everything below an earlier one before a later one, and
\* no returned path is empty.
C22_PreOrderOfNonEmptyPaths ==
  list_pc = "flattened" =>
    LET pages == {pg \in PagesBelow(page_tree) : HasPath(pg)}
    IN /\ Len(flat_paths) = Cardinality(pages)
       /\ \A pg \in pages : Cardinality(Places(pg)) = 1
       /\ \A pg \in pages : \A below \in PagesBelow(pg) \ {pg} : Place(pg) < Place(below)
       /\ \A pg \in PagesBelow(page_tree) :
            "subPages" \in DOMAIN pg =>
              \A i \in DOMAIN pg.subPages : \A j \in DOMAIN pg.subPages :
                i < j => \A below \in PagesBelow(pg.subPages[i]) :
                           Place(below) < Place(pg.subPages[j])
       /\ \A i \in DOMAIN flat_paths : flat_paths[i] # <<>>
=============================================================================
